---- MODULE Spec2Model ----
(***************************************************************************)
(* tracing-report: the capture pipeline of src/lib.rs (producer threads,   *)
(* the bounded channel, the writer thread and its log file) and the        *)
(* offline analyzer of src/main.rs (split by thread, span reconstruction,  *)
(* event counting and rendering).                                          *)
(***************************************************************************)
EXTENDS Integers, Sequences, FiniteSets, TLC

(***************************************************************************)
(* Program constants                                                       *)
(***************************************************************************)
\* sync_channel::<Vec<u8>>(128)
Capacity == 128
\* last_flush.elapsed() > Duration::from_millis(250)
FlushMs == 250
\* rx.recv_timeout(Duration::from_millis(25))
RecvTimeoutMs == 25
\* static THREAD_ID: AtomicU64 = AtomicU64::new(1)
FirstThreadId == 1
\* span.print_spans_rec(4, 2) in main
RenderDepth == 4

(***************************************************************************)
(* Bounds of the model                                                     *)
(***************************************************************************)
\* capture calls each producer thread makes in a run
MaxCalls == 2
\* capture calls the second thread makes on top of an almost full queue
BurstCalls == 1
\* Enter, Exit and Event records of a single thread's stream
MaxBody == 5
\* records of a log of several threads
MaxLog == 4
\* frames of a log file that is damaged and read back
MaxFrames == 3
\* bytes of the file a damage overwrites
MaxDamage == 2
\* capture calls of the instrumented thread in a run that is then analyzed
PipeCalls == 3

\* the producer threads of the host program
Threads == {1, 2}
\* how far the process clock may advance between two readings
ClockSteps == {0, 1}

(***************************************************************************)
(* Notifications (ReportPayload) and records (Report)                      *)
(***************************************************************************)
OnNewSpan(id, attrs) == [kind |-> "OnNewSpan", id |-> id, arg |-> attrs]
OnRecord(id) == [kind |-> "OnRecord", id |-> id, arg |-> 0]
OnFollowsFrom(id, follows) == [kind |-> "OnFollowsFrom", id |-> id, arg |-> follows]
OnEvent(event) == [kind |-> "OnEvent", id |-> 0, arg |-> event]
OnEnter(id) == [kind |-> "OnEnter", id |-> id, arg |-> 0]
OnExit(id) == [kind |-> "OnExit", id |-> id, arg |-> 0]
OnIdChange(old, new) == [kind |-> "OnIdChange", id |-> old, arg |-> new]
OnClose(id) == [kind |-> "OnClose", id |-> id, arg |-> 0]

Report(tick, thread_id, payload) ==
    [tick |-> tick, thread_id |-> thread_id, payload |-> payload]

\* the notifications the host program emits in the capture model
CapturePayloads == {OnEvent(1)}

(***************************************************************************)
(* State                                                                   *)
(***************************************************************************)
VARIABLES
    \* ---- capture side (src/lib.rs)
    THREAD_ID,        \* the process-wide identity counter
    LOCAL_METADATA,   \* thread -> its lazily assigned identity, 0 = not yet
    clock,            \* START.elapsed(), in abstract nanoseconds
    pc,               \* thread -> "idle" | "send"
    ser_msg,          \* thread -> the record it is about to enqueue
    calls,            \* thread -> capture calls it has left to make
    chan,             \* the frames buffered in the bounded channel
    rx_alive,         \* the channel's receiver exists
    tx_alive,         \* the channel's sender (the static PRODUCER) exists
    wpc,              \* writer: "unspawned" | "create" | "recv" | "panicked" | "done"
    file,             \* frames appended to report.bin
    synced,           \* number of frames covered by the last sync_all
    elapsed,          \* ms since last_flush
    waited,           \* ms the current recv_timeout has waited
    exited,           \* the process has ended
    sent,             \* thread -> records whose send returned Ok, in call order
    lost,             \* thread -> records whose send returned Err, in call order
    returned,         \* thread -> number of capture calls that returned to the caller
    \* ---- analyzer side (src/main.rs)
    data,             \* the decoded records of the log, in file order
    by_thread,        \* the (thread_id, Elements) pairs drained from the split
    idx,              \* position of the thread loop in by_thread
    results,          \* what spanner gave for each thread processed so far
    printed,          \* the lines written to standard output
    rpc,              \* analyzer: "off" | "read" | "split" | "loop" | "done" | "panicked"
    \* ---- the log file between the two programs
    recs,             \* the records that were encoded into the file
    contents,         \* the bytes of report.bin as main reads them
    damage,           \* what happened to the file after it was written
    cpc               \* file: "off" | "encode" | "written" | "damaged"

capture_vars == <<THREAD_ID, LOCAL_METADATA, clock, pc, ser_msg, calls, chan, rx_alive,
                  tx_alive, wpc, file, synced, elapsed, waited, exited, sent, lost,
                  returned>>

reader_vars == <<data, by_thread, idx, results, printed, rpc>>

codec_vars == <<recs, contents, damage, cpc>>

vars == <<capture_vars, reader_vars, codec_vars>>

NoMsg == Report(0, 0, OnClose(0))

NoDamage == [kind |-> "none", frame |-> 0, kept |-> TRUE, at |-> 0]

\* neither the codec nor a file is part of the run
CodecOff ==
    /\ recs = <<>>
    /\ contents = <<>>
    /\ damage = NoDamage
    /\ cpc = "off"

(***************************************************************************)
(* Capture interface: ReportLayer::handle_message                          *)
(***************************************************************************)
\* an identity read from the counter at every call
ThreadIdFresh(t) == THREAD_ID

\* LOCAL_METADATA.with(..): the identity of thread t after this call
ThreadIdOf(t) == IF LOCAL_METADATA[t] = 0 THEN THREAD_ID ELSE LOCAL_METADATA[t]

\* a tick counted from the previous capture call
ElapsedSinceLastCall(d) == d

\* line 63: START.elapsed().as_nanos(), read d after the last reading
Elapsed(d) == clock + d

\* lines 60-66: resolve the thread identity, stamp the tick, build and
\* serialize the record; the send of line 67 is the next step of the thread
HandleMessage(t, payload, d) ==
    /\ ~exited
    /\ UNCHANGED <<reader_vars, codec_vars>>
    /\ pc[t] = "idle"
    /\ calls[t] > 0
    /\ IF LOCAL_METADATA[t] = 0
          THEN /\ LOCAL_METADATA' = [LOCAL_METADATA EXCEPT ![t] = THREAD_ID]
               /\ THREAD_ID' = THREAD_ID + 1
          ELSE UNCHANGED <<LOCAL_METADATA, THREAD_ID>>
    /\ clock' = clock + d
    /\ ser_msg' = [ser_msg EXCEPT ![t] = Report(Elapsed(d), ThreadIdOf(t), payload)]
    /\ pc' = [pc EXCEPT ![t] = "send"]
    /\ calls' = [calls EXCEPT ![t] = @ - 1]
    /\ UNCHANGED <<chan, rx_alive, tx_alive, wpc, file, synced, elapsed, waited, exited,
                   sent, lost, returned>>

\* a send that never waits for room in the channel
SendOutcomeUnbounded == IF ~rx_alive THEN "err" ELSE "ok"

\* a send that keeps waiting for room after the receiver is gone
SendOutcomeNeverWoken ==
    IF rx_alive /\ Len(chan) < Capacity THEN "ok" ELSE "block"

\* SyncSender::send on a channel of bound Capacity: "ok" | "err" | "block"
SendOutcome ==
    IF ~rx_alive THEN "err"
    ELSE IF Len(chan) < Capacity THEN "ok"
    ELSE "block"

\* a channel that hands the newest frame out first
EnqueueFront(q, m) == <<m>> \o q

\* the channel is first in, first out: a sent frame goes behind the buffered ones
Enqueue(q, m) == Append(q, m)

\* the Err of send unwrapped: the calling thread panics
SendErrUnwrapped == "panicked"

\* let _ = ...: the Err of send is discarded and handle_message returns
SendErrSwallowed == "idle"

\* line 67: let _ = PRODUCER.send(ser_msg); the first use of PRODUCER creates
\* the channel and spawns the writer (lines 24-26, 47)
Send(t) ==
    /\ ~exited
    /\ UNCHANGED <<reader_vars, codec_vars>>
    /\ pc[t] = "send"
    /\ SendOutcome # "block"
    /\ wpc' = IF wpc = "unspawned" THEN "create" ELSE wpc
    /\ IF SendOutcome = "ok"
          THEN /\ chan' = Enqueue(chan, ser_msg[t])
               /\ sent' = [sent EXCEPT ![t] = Append(@, ser_msg[t])]
               /\ lost' = lost
               /\ pc' = [pc EXCEPT ![t] = "idle"]
          ELSE /\ chan' = chan
               /\ sent' = sent
               /\ lost' = [lost EXCEPT ![t] = Append(@, ser_msg[t])]
               /\ pc' = [pc EXCEPT ![t] = SendErrSwallowed]
    /\ ser_msg' = [ser_msg EXCEPT ![t] = NoMsg]
    /\ returned' = [returned EXCEPT ![t] = IF pc'[t] = "idle" THEN @ + 1 ELSE @]
    /\ UNCHANGED <<THREAD_ID, LOCAL_METADATA, clock, calls, rx_alive, tx_alive, file,
                   synced, elapsed, waited, exited>>

(***************************************************************************)
(* Writer thread: the closure spawned in PRODUCER                          *)
(***************************************************************************)
\* a writer that carries on after a failed file operation
WriterRetries ==
    /\ wpc' = "recv"
    /\ rx_alive' = rx_alive
    /\ chan' = chan
    /\ UNCHANGED <<synced, elapsed, waited>>

\* an unwrap() on a failed file operation: the thread unwinds, rx is dropped
\* and with it every frame still buffered
WriterPanics ==
    /\ wpc' = "panicked"
    /\ rx_alive' = FALSE
    /\ chan' = <<>>
    /\ UNCHANGED <<synced, elapsed, waited>>

\* a flush threshold that forgets the time spent waiting for a frame
FlushDueLate == elapsed > FlushMs + RecvTimeoutMs

\* line 32: last_flush.elapsed() > Duration::from_millis(250)
FlushDue == elapsed > FlushMs

\* lines 31-37: the top of an iteration, with the file holding file1 and the
\* channel chan1: the periodic flush, then the thread waits in recv_timeout
LoopTop(flush_ok, file1, chan1) ==
    IF FlushDue /\ ~flush_ok
       THEN WriterPanics
       ELSE /\ synced' = IF FlushDue THEN Len(file1) ELSE synced
            /\ elapsed' = IF FlushDue THEN 0 ELSE elapsed
            /\ wpc' = "recv"
            /\ waited' = 0
            /\ chan' = chan1
            /\ rx_alive' = rx_alive

\* lines 27-37: File::create, sync_all, last_flush = now, and the first
\* iteration up to its recv_timeout; no flush is due right after last_flush is set
WriterCreate(io_ok) ==
    /\ ~exited
    /\ UNCHANGED <<reader_vars, codec_vars>>
    /\ wpc = "create"
    /\ IF io_ok
          THEN /\ file' = <<>>
               /\ synced' = 0
               /\ elapsed' = 0
               /\ wpc' = "recv"
               /\ waited' = 0
               /\ UNCHANGED <<chan, rx_alive>>
          ELSE WriterPanics /\ file' = file
    /\ UNCHANGED <<THREAD_ID, LOCAL_METADATA, clock, pc, ser_msg, calls, tx_alive,
                   exited, sent, lost, returned>>

\* rx.recv_timeout: "ok" | "disconnected" | "wait" | "timeout"
RecvOutcome ==
    IF chan # <<>> THEN "ok"
    ELSE IF ~tx_alive THEN "disconnected"
    ELSE IF waited < RecvTimeoutMs THEN "wait"
    ELSE "timeout"

\* lines 37-44 and 31-37: recv_timeout returns; a frame is appended to the
\* file, a timeout changes nothing, and the next iteration begins; on closure
\* the writer flushes and the thread ends
WriterRecv(write_ok, flush_ok) ==
    /\ ~exited
    /\ UNCHANGED <<reader_vars, codec_vars>>
    /\ wpc = "recv"
    /\ RecvOutcome # "wait"
    /\ CASE RecvOutcome = "ok" ->
              IF write_ok
                 THEN /\ file' = Append(file, Head(chan))
                      /\ LoopTop(flush_ok, Append(file, Head(chan)), Tail(chan))
                 ELSE WriterPanics /\ file' = file
         [] RecvOutcome = "timeout" ->
              /\ file' = file
              /\ LoopTop(flush_ok, file, chan)
         [] RecvOutcome = "disconnected" ->
              /\ file' = file
              /\ IF flush_ok
                    THEN /\ synced' = Len(file)
                         /\ wpc' = "done"
                         /\ rx_alive' = FALSE
                         /\ UNCHANGED <<chan, elapsed, waited>>
                    ELSE WriterPanics
    /\ UNCHANGED <<THREAD_ID, LOCAL_METADATA, clock, pc, ser_msg, calls, tx_alive,
                   exited, sent, lost, returned>>

\* time passes while recv_timeout waits on an empty channel
WriterWait ==
    /\ ~exited
    /\ UNCHANGED <<reader_vars, codec_vars>>
    /\ wpc = "recv"
    /\ RecvOutcome = "wait"
    /\ waited' = RecvTimeoutMs
    /\ elapsed' = elapsed + (RecvTimeoutMs - waited)
    /\ UNCHANGED <<THREAD_ID, LOCAL_METADATA, clock, pc, ser_msg, calls, chan, rx_alive,
                   tx_alive, wpc, file, synced, exited, sent, lost, returned>>

\* the host program ends: every thread stops where it is; PRODUCER is a
\* static, so no destructor drops the sender
ProcessExit ==
    /\ ~exited
    /\ UNCHANGED <<reader_vars, codec_vars>>
    /\ exited' = TRUE
    /\ UNCHANGED <<THREAD_ID, LOCAL_METADATA, clock, pc, ser_msg, calls, chan, rx_alive,
                   tx_alive, wpc, file, synced, elapsed, waited, sent, lost, returned>>

(***************************************************************************)
(* Specifications of the capture pipeline                                  *)
(***************************************************************************)
\* the analyzer is a separate program: it is not running
ReaderOff ==
    /\ data = <<>>
    /\ by_thread = <<>>
    /\ idx = 0
    /\ results = <<>>
    /\ printed = <<>>
    /\ rpc = "off"
    /\ CodecOff

InitCapture(workload) ==
    /\ THREAD_ID = FirstThreadId
    /\ LOCAL_METADATA = [t \in Threads |-> 0]
    /\ clock = 0
    /\ pc = [t \in Threads |-> "idle"]
    /\ ser_msg = [t \in Threads |-> NoMsg]
    /\ calls = workload
    /\ chan = <<>>
    /\ rx_alive = TRUE
    /\ tx_alive = TRUE
    /\ wpc = "unspawned"
    /\ file = <<>>
    /\ synced = 0
    /\ elapsed = 0
    /\ waited = 0
    /\ exited = FALSE
    /\ sent = [t \in Threads |-> <<>>]
    /\ lost = [t \in Threads |-> <<>>]
    /\ returned = [t \in Threads |-> 0]
    /\ ReaderOff

\* one thread makes MaxCalls calls, every other thread one
Init == InitCapture([t \in Threads |-> IF t = 1 THEN MaxCalls ELSE 1])

\* the frames of a thread that has made Capacity - 1 calls, one clock step apart
Backlog == [i \in 1..(Capacity - 1) |-> Report(i, FirstThreadId, OnEvent(1))]

\* the pipeline after thread 1 has made Capacity - 1 calls while the writer,
\* spawned by the first of them, has not run yet: one slot is left
InitBurst ==
    /\ THREAD_ID = FirstThreadId + 1
    /\ LOCAL_METADATA = [t \in Threads |-> IF t = 1 THEN FirstThreadId ELSE 0]
    /\ clock = Capacity - 1
    /\ pc = [t \in Threads |-> "idle"]
    /\ ser_msg = [t \in Threads |-> NoMsg]
    /\ calls = [t \in Threads |-> IF t = 1 THEN 1 ELSE BurstCalls]
    /\ chan = Backlog
    /\ rx_alive = TRUE
    /\ tx_alive = TRUE
    /\ wpc = "create"
    /\ file = <<>>
    /\ synced = 0
    /\ elapsed = 0
    /\ waited = 0
    /\ exited = FALSE
    /\ sent = [t \in Threads |-> IF t = 1 THEN Backlog ELSE <<>>]
    /\ lost = [t \in Threads |-> <<>>]
    /\ returned = [t \in Threads |-> IF t = 1 THEN Capacity - 1 ELSE 0]
    /\ ReaderOff

Next ==
    \/ \E t \in Threads, p \in CapturePayloads, d \in ClockSteps : HandleMessage(t, p, d)
    \/ \E t \in Threads : Send(t)
    \/ \E io_ok \in BOOLEAN : WriterCreate(io_ok)
    \/ \E write_ok, flush_ok \in BOOLEAN : WriterRecv(write_ok, flush_ok)
    \/ WriterWait
    \/ ProcessExit

Spec == Init /\ [][Next]_vars

SpecBurst == InitBurst /\ [][Next]_vars

\* the writer thread and a thread inside send are scheduled again and again
WriterStep ==
    \/ \E io_ok \in BOOLEAN : WriterCreate(io_ok)
    \/ \E write_ok, flush_ok \in BOOLEAN : WriterRecv(write_ok, flush_ok)
    \/ WriterWait

Fairness == WF_vars(WriterStep) /\ \A t \in Threads : WF_vars(Send(t))

SpecBurstFair == InitBurst /\ [][Next]_vars /\ Fairness

(***************************************************************************)
(* Analyzer (src/main.rs): span reconstruction                             *)
(***************************************************************************)
RECURSIVE capture_span_loop(_, _, _, _, _, _)
RECURSIVE spanner_loop(_, _, _, _)
RECURSIVE count_events_rec(_)
RECURSIVE print_spans_rec(_, _, _)
RECURSIVE NewSpanMap(_, _, _)
RECURSIVE NewSpanMapFirstWins(_, _, _)
RECURSIVE chunky(_, _, _)

\* struct Span
Span(start, end, spans, events, attrs) ==
    [start |-> start, end |-> end, spans |-> spans, events |-> events, attrs |-> attrs]

NoSpan == Span(0, 0, <<>>, <<>>, 0)

\* a panic of the analyzer: which one, and the two sides of a failed assert_eq
Panic(kind, left, right) == [kind |-> kind, left |-> left, right |-> right]

NoPanic == Panic("none", 0, 0)

\* what capture_span hands back: the span and the stack left, or the panic
Captured(span, stack) == [ok |-> TRUE, span |-> span, stack |-> stack, err |-> NoPanic]

CaptureFailed(err) == [ok |-> FALSE, span |-> NoSpan, stack |-> <<>>, err |-> err]

\* what spanner hands back: struct TlSpans, or the panic
TlSpans(spans, events) == [ok |-> TRUE, spans |-> spans, events |-> events, err |-> NoPanic]

SpannerFailed(err) == [ok |-> FALSE, spans |-> <<>>, events |-> <<>>, err |-> err]

Reverse(s) == [i \in 1..Len(s) |-> s[Len(s) + 1 - i]]

\* Vec::pop: the last element, and the vector without it
Top(stack) == stack[Len(stack)]

Popped(stack) == SubSeq(stack, 1, Len(stack) - 1)

\* an exhausted stack taken for the end of the span: the span is closed where
\* it started
PopNoneCloses(map, id_span, start, spans, events) ==
    Captured(Span(start, start, spans, events, 0), <<>>)

\* line 84: pop.as_deref().unwrap() when the stack is exhausted inside a span
PopNone(map, id_span, start, spans, events) ==
    CaptureFailed(Panic("unwrap_none", 0, 0))

\* an Exit taken for the end of the open span whatever its id
ExitAlwaysMatches(id, id_span) == TRUE

\* line 93: assert_eq!(span.id, id_span)
ExitMatches(id, id_span) == id = id_span

\* a span that takes the tick of its Exit for its start too
CloseSpanAtExit(map, id_span, start, tick, spans, events, stack) ==
    IF id_span \in DOMAIN map
       THEN Captured(Span(tick, tick, spans, events, map[id_span]), stack)
       ELSE CaptureFailed(Panic("unwrap_attrs", id_span, 0))

\* a span that closes with empty attributes when its id has no NewSpan record
CloseSpanDefaultAttrs(map, id_span, start, tick, spans, events, stack) ==
    Captured(Span(start, tick, spans, events,
                  IF id_span \in DOMAIN map THEN map[id_span] ELSE 0), stack)

\* lines 94-100: the span is complete; map.get(&id_span).unwrap()
CloseSpan(map, id_span, start, tick, spans, events, stack) ==
    IF id_span \in DOMAIN map
       THEN Captured(Span(start, tick, spans, events, map[id_span]), stack)
       ELSE CaptureFailed(Panic("unwrap_attrs", id_span, 0))

\* a match that takes a Close record for the Exit of its span
ArmCloseAsExit(payload) ==
    IF payload.kind \in {"OnEvent", "OnEnter", "OnExit"} THEN payload.kind
    ELSE IF payload.kind = "OnClose" THEN "OnExit"
    ELSE "_"

\* lines 85-103 and 132-143: the arm of match payload that a record takes:
\* OnEvent, OnEnter, OnExit, and _ for every other variant
Arm(payload) ==
    IF payload.kind \in {"OnEvent", "OnEnter", "OnExit"} THEN payload.kind ELSE "_"

\* lines 82-104: the loop of capture_span over the local spans and events
capture_span_loop(map, stack, id_span, start, spans, events) ==
    IF stack = <<>>
       THEN PopNone(map, id_span, start, spans, events)
       ELSE LET rpt == Top(stack)
                rest == Popped(stack)
            IN  CASE Arm(rpt.payload) = "OnEvent" ->
                       capture_span_loop(map, rest, id_span, start, spans,
                                         Append(events, rpt.payload.arg))
                  [] Arm(rpt.payload) = "OnEnter" ->
                       LET child == capture_span_loop(map, rest, rpt.payload.id,
                                                      rpt.tick, <<>>, <<>>)
                       IN  IF child.ok
                              THEN capture_span_loop(map, child.stack, id_span, start,
                                                     Append(spans, child.span), events)
                              ELSE child
                  [] Arm(rpt.payload) = "OnExit" ->
                       IF ExitMatches(rpt.payload.id, id_span)
                          THEN CloseSpan(map, id_span, start, rpt.tick, spans, events, rest)
                          ELSE CaptureFailed(Panic("assert_eq", rpt.payload.id, id_span))
                  [] OTHER ->
                       capture_span_loop(map, rest, id_span, start, spans, events)

\* lines 74-105
capture_span(map, stack, id_span, start) ==
    capture_span_loop(map, stack, id_span, start, <<>>, <<>>)

\* a map that keeps the attributes of the first NewSpan record of an id
NewSpanMapFirstWins(rpts, i, map) ==
    IF i > Len(rpts) THEN map
    ELSE IF rpts[i].payload.kind = "OnNewSpan" /\ rpts[i].payload.id \notin DOMAIN map
       THEN NewSpanMapFirstWins(rpts, i + 1,
               [id \in DOMAIN map \cup {rpts[i].payload.id} |->
                   IF id = rpts[i].payload.id THEN rpts[i].payload.arg ELSE map[id]])
       ELSE NewSpanMapFirstWins(rpts, i + 1, map)

\* lines 109-117: the id -> attributes map, a later insert replacing an earlier
NewSpanMap(rpts, i, map) ==
    IF i > Len(rpts) THEN map
    ELSE IF rpts[i].payload.kind = "OnNewSpan"
       THEN NewSpanMap(rpts, i + 1,
               [id \in DOMAIN map \cup {rpts[i].payload.id} |->
                   IF id = rpts[i].payload.id THEN rpts[i].payload.arg ELSE map[id]])
       ELSE NewSpanMap(rpts, i + 1, map)

\* lines 139-141: an Exit while no span is open: panic!()
RootExit(map, rest, spans, events) == SpannerFailed(Panic("explicit", 0, 0))

\* lines 124-144: the loop of spanner over the thread's roots
spanner_loop(map, stack, spans, events) ==
    IF stack = <<>>
       THEN TlSpans(spans, events)
       ELSE LET rpt == Top(stack)
                rest == Popped(stack)
            IN  CASE Arm(rpt.payload) = "OnEvent" ->
                       spanner_loop(map, rest, spans, Append(events, rpt.payload.arg))
                  [] Arm(rpt.payload) = "OnEnter" ->
                       LET child == capture_span(map, rest, rpt.payload.id, rpt.tick)
                       IN  IF child.ok
                              THEN spanner_loop(map, child.stack,
                                                Append(spans, child.span), events)
                              ELSE SpannerFailed(child.err)
                  [] Arm(rpt.payload) = "OnExit" ->
                       RootExit(map, rest, spans, events)
                  [] OTHER ->
                       spanner_loop(map, rest, spans, events)

\* lines 108-147: Elements::spanner
spanner(rpts) ==
    spanner_loop(NewSpanMap(rpts, 1, <<>>), Reverse(rpts), <<>>, <<>>)

Sum(f, n) ==
    LET S[i \in 0..n] == IF i = 0 THEN 0 ELSE S[i - 1] + f[i]
    IN  S[n]

\* a count that leaves out the events the children hold themselves
CountWithoutChildOwn(span) ==
    <<Len(span.events),
      Sum([i \in 1..Len(span.spans) |-> count_events_rec(span.spans[i])[2]],
          Len(span.spans))>>

\* lines 38-47: (own events, events of all descendants)
count_events_rec(span) ==
    <<Len(span.events),
      Sum([i \in 1..Len(span.spans) |->
              count_events_rec(span.spans[i])[1] + count_events_rec(span.spans[i])[2]],
          Len(span.spans))>>

\* line 217: the "THREAD n" line
ThreadLine(thread_id) ==
    [what |-> "THREAD", thread |-> thread_id, indent |-> 0, ns |-> 0, attrs |-> 0,
     events |-> 0, child_events |-> 0]

\* lines 61-68 and 223-230: one "[SPAN | ..]" line
SpanLine(span, indent) ==
    [what |-> "SPAN", thread |-> 0, indent |-> indent,
     ns |-> span.end - span.start,
     attrs |-> span.attrs,
     events |-> count_events_rec(span)[1],
     child_events |-> count_events_rec(span)[2]]

Concat(ss) ==
    LET C[i \in 0..Len(ss)] == IF i = 0 THEN <<>> ELSE C[i - 1] \o ss[i]
    IN  C[Len(ss)]

\* lines 49-71: the lines printed for the children of span, depth levels deep
print_spans_rec(span, depth, indent) ==
    IF depth = 0 THEN <<>>
    ELSE Concat([i \in 1..Len(span.spans) |->
                    <<SpanLine(span.spans[i], indent)>>
                       \o print_spans_rec(span.spans[i], depth - 1, indent + 2)])

\* lines 217-232: what the thread loop prints for one thread
ThreadReport(thread_id, tl_span) ==
    <<ThreadLine(thread_id)>>
       \o Concat([i \in 1..Len(tl_span.spans) |->
                     <<SpanLine(tl_span.spans[i], 0)>>
                        \o print_spans_rec(tl_span.spans[i], RenderDepth, 2)])

\* lines 152-159: thread_id -> the thread's records, each pushed in file order
chunky(rpts, i, map) ==
    IF i > Len(rpts) THEN map
    ELSE chunky(rpts, i + 1,
            [id \in DOMAIN map \cup {rpts[i].thread_id} |->
                IF id \in DOMAIN map
                   THEN IF id = rpts[i].thread_id THEN Append(map[id], rpts[i]) ELSE map[id]
                   ELSE <<rpts[i]>>])

\* the orders in which a HashMap may be drained
DrainOrders(keys) ==
    {p \in [1..Cardinality(keys) -> keys] : \A i, j \in DOMAIN p : i # j => p[i] # p[j]}

\* lines 151-165: Elements::split_by_thread_id, for every drain order
split_by_thread_id(rpts) ==
    LET groups == chunky(rpts, 1, <<>>)
    IN  {[i \in DOMAIN p |-> [thread_id |-> p[i], rpts |-> groups[p[i]]]] :
            p \in DrainOrders(DOMAIN groups)}

\* line 214
Split ==
    /\ rpc = "split"
    /\ \E order \in split_by_thread_id(data) : by_thread' = order
    /\ idx' = 1
    /\ rpc' = "loop"
    /\ UNCHANGED <<data, results, printed>>
    /\ UNCHANGED <<capture_vars, codec_vars>>

\* lines 216-233: one iteration of the thread loop; a panic of spanner ends
\* the process
ThreadLoop ==
    /\ rpc = "loop"
    /\ idx <= Len(by_thread)
    /\ LET thread_id == by_thread[idx].thread_id
           tl_span == spanner(by_thread[idx].rpts)
       IN  /\ results' = Append(results, [thread_id |-> thread_id, tl_span |-> tl_span])
           /\ IF tl_span.ok
                 THEN /\ printed' = printed \o ThreadReport(thread_id, tl_span)
                      /\ idx' = idx + 1
                      /\ rpc' = "loop"
                 ELSE /\ printed' = Append(printed, ThreadLine(thread_id))
                      /\ idx' = idx
                      /\ rpc' = "panicked"
    /\ UNCHANGED <<data, by_thread>>
    /\ UNCHANGED <<capture_vars, codec_vars>>

\* line 334: main returns
MainReturns ==
    /\ rpc = "loop"
    /\ idx > Len(by_thread)
    /\ rpc' = "done"
    /\ UNCHANGED <<data, by_thread, idx, results, printed>>
    /\ UNCHANGED <<capture_vars, codec_vars>>

(***************************************************************************)
(* The logs the analyzer is run on                                         *)
(***************************************************************************)
\* the span ids of the logs
SpanIds == {1, 2}

\* the thread identities of the logs
LogThreads == {1, 2}

\* the attributes recorded for span id: the line of its callsite
AttrsOf(id) == 10 * id

\* the four kinds of record the tree build passes over, by position
SkipPayload(i) ==
    CASE i % 4 = 0 -> OnRecord(1)
      [] i % 4 = 1 -> OnFollowsFrom(1, 2)
      [] i % 4 = 2 -> OnIdChange(1, 2)
      [] OTHER -> OnClose(1)

\* the record at position i of a log, for thread th and symbol <<kind, id>>;
\* the tick is the position, an event carries its position as its data
RecordAt(i, th, sym) ==
    Report(i, th,
        CASE sym[1] = "OnNewSpan" -> OnNewSpan(sym[2], AttrsOf(sym[2]))
          [] sym[1] = "OnNewSpanAgain" -> OnNewSpan(sym[2], AttrsOf(sym[2]) + 1)
          [] sym[1] = "OnEnter" -> OnEnter(sym[2])
          [] sym[1] = "OnExit" -> OnExit(sym[2])
          [] sym[1] = "OnEvent" -> OnEvent(i)
          [] sym[1] = "OnRecord" -> OnRecord(sym[2])
          [] sym[1] = "OnFollowsFrom" -> OnFollowsFrom(sym[2], 2)
          [] sym[1] = "OnIdChange" -> OnIdChange(sym[2], 2)
          [] sym[1] = "OnClose" -> OnClose(sym[2])
          [] OTHER -> SkipPayload(i))

SeqsUpTo(S, n) == UNION {[1..k -> S] : k \in 0..n}

\* one thread's stream: NewSpan records for some of the ids, then up to
\* MaxBody Enter, Exit and Event records
BodySymbols ==
    {<<"OnEnter", id>> : id \in SpanIds} \cup {<<"OnExit", id>> : id \in SpanIds}
       \cup {<<"OnEvent", 0>>}

Preambles ==
    {p \in SeqsUpTo(SpanIds, Cardinality(SpanIds)) :
        \A i, j \in DOMAIN p : i < j => p[i] < p[j]}

DeepStreams ==
    {[i \in 1..(Len(p) + Len(b)) |->
         IF i <= Len(p) THEN RecordAt(i, 1, <<"OnNewSpan", p[i]>>)
                        ELSE RecordAt(i, 1, b[i - Len(p)])] :
        p \in Preambles, b \in SeqsUpTo(BodySymbols, MaxBody)}

\* logs of several threads: up to MaxLog records of any kind about one span id
LogSymbols ==
    {<<th, <<k, 1>>>> : th \in LogThreads,
                        k \in {"OnNewSpan", "OnEnter", "OnExit", "OnEvent", "Skip"}}

ShallowLogs ==
    {[i \in DOMAIN l |-> RecordAt(i, l[i][1], l[i][2])] : l \in SeqsUpTo(LogSymbols, MaxLog)}

\* one thread's stream in which a span id is used again: NewSpan records with
\* the attributes of two callsites among Enter and Exit records, up to MaxLog
ReuseSymbols ==
    {<<k, 1>> : k \in {"OnNewSpan", "OnNewSpanAgain", "OnEnter", "OnExit"}}

ReuseLogs ==
    {[i \in DOMAIN l |-> RecordAt(i, 1, l[i])] : l \in SeqsUpTo(ReuseSymbols, MaxLog)}

\* one thread's stream with records of the four kinds the tree build passes
\* over: NewSpan(1), then up to MaxLog records, each an Enter, Exit or Event or
\* of one of the four kinds
PassedKinds == {"OnRecord", "OnFollowsFrom", "OnIdChange", "OnClose"}

PassedSymbols ==
    {<<k, 1>> : k \in {"OnEnter", "OnExit", "OnEvent"} \cup PassedKinds}

PassedLogs ==
    {[i \in 1..(Len(l) + 1) |->
         IF i = 1 THEN RecordAt(1, 1, <<"OnNewSpan", 1>>) ELSE RecordAt(i, 1, l[i - 1])] :
        l \in SeqsUpTo(PassedSymbols, MaxLog)}

\* NewSpan(1), Enter(1) at tick 100, Event at tick 150, Exit(1) at tick 200
EndToEndExample ==
    <<Report(50, 1, OnNewSpan(1, AttrsOf(1))), Report(100, 1, OnEnter(1)),
      Report(150, 1, OnEvent(3)), Report(200, 1, OnExit(1))>>

\* the families of logs the analyzer is run on
Logs == <<DeepStreams, ShallowLogs, ReuseLogs, PassedLogs, {EndToEndExample}>>

\* the capture pipeline is a separate program: it is not running
CaptureOff ==
    /\ THREAD_ID = FirstThreadId
    /\ LOCAL_METADATA = [t \in Threads |-> 0]
    /\ clock = 0
    /\ pc = [t \in Threads |-> "idle"]
    /\ ser_msg = [t \in Threads |-> NoMsg]
    /\ calls = [t \in Threads |-> 0]
    /\ chan = <<>>
    /\ rx_alive = TRUE
    /\ tx_alive = TRUE
    /\ wpc = "unspawned"
    /\ file = <<>>
    /\ synced = 0
    /\ elapsed = 0
    /\ waited = 0
    /\ exited = FALSE
    /\ sent = [t \in Threads |-> <<>>]
    /\ lost = [t \in Threads |-> <<>>]
    /\ returned = [t \in Threads |-> 0]

\* main after line 212: the log is read and decoded
InitReader ==
    /\ CaptureOff
    /\ CodecOff
    /\ \E family \in DOMAIN Logs : data \in Logs[family]
    /\ by_thread = <<>>
    /\ idx = 0
    /\ results = <<>>
    /\ printed = <<>>
    /\ rpc = "split"

NextReader ==
    \/ Split
    \/ ThreadLoop
    \/ MainReturns

SpecReader == InitReader /\ [][NextReader]_vars

(***************************************************************************)
(* Frame codec: postcard::to_stdvec_cobs (lib.rs) and                      *)
(* postcard::from_bytes_cobs over the split file (main.rs)                 *)
(***************************************************************************)
RECURSIVE Varint(_)
RECURSIVE ReadVarint(_, _, _, _, _)
RECURSIVE CobsBlocks(_)
RECURSIVE cobs_decode_loop(_, _, _)
RECURSIVE SplitOnZero(_, _)
RECURSIVE ConcatFrames(_)
RECURSIVE DecodeAll(_)

\* the index of each variant of enum ReportPayload, in declaration order
VariantIndex ==
    [OnNewSpan |-> 0, OnRecord |-> 1, OnFollowsFrom |-> 2, OnEvent |-> 3,
     OnEnter |-> 4, OnExit |-> 5, OnIdChange |-> 6, OnClose |-> 7]

VariantKinds ==
    <<"OnNewSpan", "OnRecord", "OnFollowsFrom", "OnEvent", "OnEnter", "OnExit",
      "OnIdChange", "OnClose">>

\* an integer on the wire: 7 bits a byte, low group first, the high bit set
\* on every byte but the last
Varint(n) ==
    IF n < 128 THEN <<n>> ELSE <<128 + (n % 128)>> \o Varint(n \div 128)

\* the fields of a variant in declaration order; attrs, values and event
\* stand for their serialized content, span ids are SerializeId
PayloadFields(p) ==
    CASE p.kind = "OnNewSpan" -> Varint(p.arg) \o Varint(p.id)
      [] p.kind = "OnRecord" -> Varint(p.id) \o Varint(p.arg)
      [] p.kind = "OnFollowsFrom" -> Varint(p.id) \o Varint(p.arg)
      [] p.kind = "OnEvent" -> Varint(p.arg)
      [] p.kind = "OnIdChange" -> Varint(p.id) \o Varint(p.arg)
      [] OTHER -> Varint(p.id)

\* the serialized record: tick, thread_id, the variant index, the fields
Serialize(r) ==
    Varint(r.tick) \o Varint(r.thread_id)
       \o Varint(VariantIndex[r.payload.kind]) \o PayloadFields(r.payload)

\* the number of leading non-zero bytes of bytes
Run(bytes) ==
    IF \E i \in DOMAIN bytes : bytes[i] = 0
       THEN (CHOOSE i \in DOMAIN bytes :
                bytes[i] = 0 /\ \A j \in 1..(i - 1) : bytes[j] # 0) - 1
       ELSE Len(bytes)

\* byte stuffing: every run of non-zero bytes is preceded by its length plus
\* one, and the zero that ended it is left out (runs stay below 254 bytes)
CobsBlocks(bytes) ==
    LET n == Run(bytes)
    IN  <<n + 1>> \o SubSeq(bytes, 1, n)
           \o (IF n = Len(bytes) THEN <<>>
               ELSE CobsBlocks(SubSeq(bytes, n + 2, Len(bytes))))

\* a frame with the stuffing left out
NoStuffing(r) == Append(Serialize(r), 0)

\* line 66: postcard::to_stdvec_cobs(&msg): the stuffed record and the
\* terminating zero
to_stdvec_cobs(r) == Append(CobsBlocks(Serialize(r)), 0)

Failed == [ok |-> FALSE, bytes |-> <<>>]

\* cobs::decode_in_place: si is the position of the next code byte
cobs_decode_loop(buff, si, out) ==
    IF si > Len(buff) THEN [ok |-> TRUE, bytes |-> out]
    ELSE LET code == buff[si]
         IN  IF (si - 1) + code > Len(buff) /\ code # 1 THEN Failed
             ELSE LET next == IF code = 0 THEN si + 1 ELSE si + code
                      block == SubSeq(buff, si + 1, next - 1)
                      zero == IF code # 255 /\ next <= Len(buff) THEN <<0>> ELSE <<>>
                  IN  cobs_decode_loop(buff, next, out \o block \o zero)

cobs_decode(buff) == cobs_decode_loop(buff, 1, <<>>)

\* every decoded integer of 2^28 or more, up to the u128 of a tick
Huge == 1073741824

\* acc + b * shift over the decoded integers
Accumulate(acc, b, shift) ==
    IF b = 0 THEN acc
    ELSE IF acc = Huge \/ shift > 2097152 THEN Huge
    ELSE acc + b * shift

\* try_take_varint: at most max bytes; [ok, val, next]
ReadVarint(bytes, pos, max, shift, acc) ==
    IF max = 0 \/ pos > Len(bytes) THEN [ok |-> FALSE, val |-> 0, next |-> pos]
    ELSE IF bytes[pos] < 128
            THEN [ok |-> TRUE, val |-> Accumulate(acc, bytes[pos], shift),
                  next |-> pos + 1]
            ELSE ReadVarint(bytes, pos + 1, max - 1,
                            IF shift > 2097152 THEN shift ELSE shift * 128,
                            Accumulate(acc, bytes[pos] - 128, shift))

NoRecord == [ok |-> FALSE, rec |-> Report(0, 0, OnClose(0))]

\* Report::to_owned and ReportPayload::to_owned: the record rebuilt field by
\* field with owned values
ToOwned(r) ==
    Report(r.tick, r.thread_id,
           [kind |-> r.payload.kind, id |-> r.payload.id, arg |-> r.payload.arg])

\* the variants whose second field is a SerializeId
SecondIsId == {"OnFollowsFrom", "OnIdChange"}

\* the variants with a field besides the span id
HasArg == {"OnNewSpan", "OnRecord", "OnFollowsFrom", "OnEvent", "OnIdChange"}

\* postcard::from_bytes::<Report>: tick (u128), thread_id (u64), the variant
\* index (u32), the fields; a SerializeId is a NonZeroU64; bytes left over
\* after the record are ignored
from_bytes(bytes) ==
    LET tick == ReadVarint(bytes, 1, 19, 1, 0)
        thread_id == ReadVarint(bytes, tick.next, 10, 1, 0)
        variant == ReadVarint(bytes, thread_id.next, 5, 1, 0)
    IN  IF ~tick.ok \/ ~thread_id.ok \/ ~variant.ok \/ variant.val > 7 THEN NoRecord
        ELSE
          LET kind == VariantKinds[variant.val + 1]
              first == ReadVarint(bytes, variant.next, 10, 1, 0)
              second == IF kind \in HasArg \ {"OnEvent"}
                           THEN ReadVarint(bytes, first.next, 10, 1, 0)
                           ELSE [ok |-> TRUE, val |-> 0, next |-> first.next]
              id == CASE kind = "OnNewSpan" -> second.val
                      [] kind = "OnEvent" -> 0
                      [] OTHER -> first.val
              arg == CASE kind = "OnNewSpan" -> first.val
                       [] kind = "OnEvent" -> first.val
                       [] OTHER -> second.val
          IN  IF ~first.ok \/ ~second.ok THEN NoRecord
              ELSE IF kind # "OnEvent" /\ id = 0 THEN NoRecord
              ELSE IF kind \in SecondIsId /\ arg = 0 THEN NoRecord
              ELSE [ok |-> TRUE,
                    rec |-> Report(tick.val, thread_id.val,
                                   [kind |-> kind, id |-> id, arg |-> arg])]

\* line 207: postcard::from_bytes_cobs::<Report>(frame)
from_bytes_cobs(frame) ==
    LET plain == cobs_decode(frame)
    IN  IF plain.ok THEN from_bytes(plain.bytes) ELSE NoRecord

\* line 206: contents.split_mut(|&b| b == 0): the pieces between zeros, the
\* one after the last zero included
SplitOnZero(bytes, piece) ==
    IF bytes = <<>> THEN <<piece>>
    ELSE IF Head(bytes) = 0 THEN <<piece>> \o SplitOnZero(Tail(bytes), <<>>)
    ELSE SplitOnZero(Tail(bytes), Append(piece, Head(bytes)))

\* a reader that stops at the first piece that does not decode
DecodeUntilError(pieces) ==
    LET bad == {i \in DOMAIN pieces : ~from_bytes_cobs(pieces[i]).ok}
        n == IF bad = {} THEN Len(pieces)
             ELSE (CHOOSE i \in bad : \A j \in bad : i <= j) - 1
    IN  [i \in 1..n |-> ToOwned(from_bytes_cobs(pieces[i]).rec)]

\* a reader that gives up the whole file when a piece does not decode
DecodeAllOrNothing(pieces) ==
    IF \E i \in DOMAIN pieces : ~from_bytes_cobs(pieces[i]).ok THEN <<>>
    ELSE [i \in DOMAIN pieces |-> ToOwned(from_bytes_cobs(pieces[i]).rec)]

\* lines 207-209: decode every piece, keep the Ok ones, make them owned
DecodeAll(pieces) ==
    IF pieces = <<>> THEN <<>>
    ELSE LET r == from_bytes_cobs(Head(pieces))
         IN  (IF r.ok THEN <<ToOwned(r.rec)>> ELSE <<>>) \o DecodeAll(Tail(pieces))

\* lines 205-210: the records main gets from the bytes of the file
read_log(bytes) == DecodeAll(SplitOnZero(bytes, <<>>))

\* the file the writer makes of these records: their frames, one after another
ConcatFrames(rs) ==
    IF rs = <<>> THEN <<>> ELSE to_stdvec_cobs(Head(rs)) \o ConcatFrames(Tail(rs))

(***************************************************************************)
(* The log file from its records to the records main reads back            *)
(***************************************************************************)
\* the values the integers of the encoded records take: one byte with and
\* without the value zero, and two bytes
WireTicks == {0, 128, 300}

WireIds == {1, 128}

\* a notification of every variant
WirePayloads ==
    {OnNewSpan(id, a) : id \in WireIds, a \in {0, 10}}
       \cup {OnRecord(id) : id \in WireIds}
       \cup {OnFollowsFrom(id, f) : id \in WireIds, f \in {2}}
       \cup {OnEvent(e) : e \in {0, 1, 200}}
       \cup {OnEnter(id) : id \in WireIds}
       \cup {OnExit(id) : id \in WireIds}
       \cup {OnIdChange(id, n) : id \in WireIds, n \in {256}}
       \cup {OnClose(id) : id \in WireIds}

\* the logs of one record
SingleLogs == {<<Report(t, th, p)>> : t \in WireTicks, th \in LogThreads, p \in WirePayloads}

\* the records of the logs of several frames
FewRecords == {Report(0, 1, OnEnter(1)), Report(128, 2, OnEvent(0))}

SeveralLogs == UNION {[1..n -> FewRecords] : n \in 2..MaxFrames}

\* the bytes a damaged range may hold
DamageBytes == {0, 1, 2, 255}

\* the position in the file of the terminating zero of the k-th frame
FrameEnd(rs, k) == Len(ConcatFrames(SubSeq(rs, 1, k)))

\* lines 66-67 and 38: every record is encoded by its producer and its frame
\* is appended to the file as it is
EncodeLog ==
    /\ cpc = "encode"
    /\ contents' = ConcatFrames(recs)
    /\ cpc' = "written"
    /\ UNCHANGED <<recs, damage>>
    /\ UNCHANGED <<capture_vars, reader_vars>>

\* the file ends after its first n bytes: the process ended in the middle of a
\* write, before main opens the file
Truncate(n) ==
    /\ cpc = "written"
    /\ rpc = "read"
    /\ n < Len(contents)
    /\ contents' = SubSeq(contents, 1, n)
    /\ damage' = [kind |-> "cut", frame |-> 0, kept |-> FALSE, at |-> n]
    /\ cpc' = "damaged"
    /\ UNCHANGED recs
    /\ UNCHANGED <<capture_vars, reader_vars>>

\* the bytes of the file from position at on, all inside frame k, are
\* overwritten by bytes
Corrupt(k, at, bytes) ==
    /\ cpc = "written"
    /\ rpc = "read"
    /\ k \in DOMAIN recs
    /\ at > FrameEnd(recs, k - 1)
    /\ at + Len(bytes) - 1 <= FrameEnd(recs, k)
    /\ contents' = [i \in DOMAIN contents |->
                       IF i >= at /\ i < at + Len(bytes)
                          THEN bytes[i - at + 1] ELSE contents[i]]
    /\ damage' = [kind |-> "range", frame |-> k,
                  kept |-> contents'[FrameEnd(recs, k)] = 0, at |-> at]
    /\ cpc' = "damaged"
    /\ UNCHANGED recs
    /\ UNCHANGED <<capture_vars, reader_vars>>

\* lines 202-210 of main: the file is read, split and decoded
ReadLog ==
    /\ rpc = "read"
    /\ cpc \in {"written", "damaged"}
    /\ data' = read_log(contents)
    /\ rpc' = "split"
    /\ UNCHANGED <<by_thread, idx, results, printed>>
    /\ UNCHANGED <<capture_vars, codec_vars>>

InitCodec ==
    /\ CaptureOff
    /\ recs \in SingleLogs \cup SeveralLogs
    /\ contents = <<>>
    /\ damage = NoDamage
    /\ cpc = "encode"
    /\ data = <<>>
    /\ by_thread = <<>>
    /\ idx = 0
    /\ results = <<>>
    /\ printed = <<>>
    /\ rpc = "read"

NextCodec ==
    \/ EncodeLog
    \/ \E n \in 0..(Len(contents) - 1) : Truncate(n)
    \/ \E k \in DOMAIN recs, at \in 1..Len(contents) :
          \E bytes \in UNION {[1..n -> DamageBytes] : n \in 1..MaxDamage} :
             Corrupt(k, at, bytes)
    \/ ReadLog

SpecCodec == InitCodec /\ [][NextCodec]_vars

(***************************************************************************)
(* A capture run followed by the analyzer on its report.bin                *)
(***************************************************************************)
\* the i-th notification of thread t of the host program: thread 1 creates a
\* span, then enters it, exits it and emits an event, again and again; every
\* other thread emits events
ScriptAt(t, i) ==
    IF t # 1 THEN OnEvent(t)
    ELSE IF i = 1 THEN OnNewSpan(1, AttrsOf(1))
    ELSE CASE (i - 2) % 3 = 0 -> OnEnter(1)
           [] (i - 2) % 3 = 1 -> OnExit(1)
           [] OTHER -> OnEvent(1)

\* the number of the next capture call of thread t
CallNo(t) == Len(sent[t]) + Len(lost[t]) + 1

InitPipeline == InitCapture([t \in Threads |-> IF t = 1 THEN PipeCalls ELSE 1])

\* the run is over: of the process only report.bin is left, the frames the
\* writer appended one after another, and the analyzer is started on it
OpenLog ==
    /\ exited
    /\ rpc = "off"
    /\ recs' = file
    /\ contents' = ConcatFrames(file)
    /\ cpc' = "written"
    /\ rpc' = "read"
    /\ UNCHANGED <<data, by_thread, idx, results, printed, damage>>
    /\ THREAD_ID' = FirstThreadId
    /\ LOCAL_METADATA' = [t \in Threads |-> 0]
    /\ clock' = 0
    /\ pc' = [t \in Threads |-> "idle"]
    /\ ser_msg' = [t \in Threads |-> NoMsg]
    /\ calls' = [t \in Threads |-> 0]
    /\ chan' = <<>>
    /\ wpc' = "unspawned"
    /\ synced' = 0
    /\ elapsed' = 0
    /\ waited' = 0
    /\ sent' = [t \in Threads |-> <<>>]
    /\ lost' = [t \in Threads |-> <<>>]
    /\ returned' = [t \in Threads |-> 0]
    /\ UNCHANGED <<file, rx_alive, tx_alive, exited>>

NextPipeline ==
    \/ \E t \in Threads, d \in ClockSteps : HandleMessage(t, ScriptAt(t, CallNo(t)), d)
    \/ \E t \in Threads : Send(t)
    \/ \E io_ok \in BOOLEAN : WriterCreate(io_ok)
    \/ \E write_ok, flush_ok \in BOOLEAN : WriterRecv(write_ok, flush_ok)
    \/ WriterWait
    \/ ProcessExit
    \/ OpenLog
    \/ ReadLog
    \/ Split
    \/ ThreadLoop
    \/ MainReturns

SpecPipeline == InitPipeline /\ [][NextPipeline]_vars

(***************************************************************************)
(* Properties of the capture pipeline                                      *)
(***************************************************************************)
\* the frames of s that carry thread identity id, in the order of s
Restrict(s, id) == SelectSeq(s, LAMBDA m : m.thread_id = id)

IsPrefix(a, b) == Len(a) <= Len(b) /\ SubSeq(b, 1, Len(a)) = a

\* the writer thread has not ended
WriterAlive == wpc \in {"create", "recv"}

\* C1: for every producer thread, under every interleaving, the log file
\* restricted to the thread's identity holds the thread's successfully
\* enqueued records in call order: it is a prefix of them, and together with
\* the frames still buffered it is all of them while the receiver exists.
C1_PerThreadOrder ==
    \A t \in Threads :
        /\ IsPrefix(Restrict(file, LOCAL_METADATA[t]), sent[t])
        /\ (rx_alive /\ wpc # "panicked")
              => Restrict(file \o chan, LOCAL_METADATA[t]) = sent[t]

\* C1 witness: a frame of another thread lies in the file between two differing
\* frames of one thread, and carries a later tick than the frame after it.
C1_Witness ==
    /\ Len(file) = 3
    /\ file[1].thread_id = file[3].thread_id
    /\ file[1].thread_id # file[2].thread_id
    /\ file[1] # file[3]
    /\ file[2].tick > file[3].tick

\* C2: the channel never holds more than Capacity frames; a producer whose
\* send finds the channel full stays in send, with its frame, until a frame
\* has been taken out; while the receiver exists every enqueued frame is
\* either buffered or in the file; and with the writer scheduled, a blocked
\* send completes and the buffered frames reach the file, unless the process
\* ends or the writer dies first.
C2_Backpressure ==
    /\ [](Len(chan) <= Capacity)
    /\ [](rx_alive => \A t \in Threads :
              Restrict(file \o chan, LOCAL_METADATA[t]) = sent[t])
    /\ [](rx_alive => Len(file) + Len(chan)
                         = Len(sent[1]) + Len(sent[2]))
    /\ [][\A t \in Threads :
            (pc[t] = "send" /\ rx_alive /\ Len(chan) = Capacity)
               => (pc'[t] = "send" /\ ser_msg'[t] = ser_msg[t])]_vars
    /\ (chan # <<>> \/ \E t \in Threads : pc[t] = "send")
          ~> ((chan = <<>> /\ \A t \in Threads : pc[t] = "idle") \/ exited)

\* C2 witness: the channel is full of frames of both threads while the writer
\* is alive, and the thread whose frame is not among them is blocked in send.
C2_Witness ==
    /\ Len(chan) = Capacity
    /\ rx_alive
    /\ WriterAlive
    /\ \E t \in Threads : pc[t] = "send"
    /\ \E i \in 1..Len(chan) : chan[i].thread_id # FirstThreadId

\* C8: once the process has ended, a writer that was running has been told of
\* the closure: it has appended every frame of the queue, has flushed after
\* its last append and has terminated.
C8_ShutdownClosure ==
    (exited /\ wpc \in {"recv", "done"})
       => (wpc = "done" /\ chan = <<>> /\ synced = Len(file))

\* the closure branch of the writer is never taken: the sender lives in a
\* static and is never dropped
ClosureNeverSignalled == tx_alive /\ wpc # "done"

\* C9: while the writer runs, the time since the last flush never exceeds
\* FlushMs + RecvTimeoutMs and no receive waits longer than RecvTimeoutMs; at
\* the top of every iteration the writer flushes all of the file and resets
\* the timer exactly when more than FlushMs have elapsed.
C9_FlushLatency ==
    /\ [](WriterAlive => (elapsed <= FlushMs + RecvTimeoutMs /\ waited <= RecvTimeoutMs))
    /\ [][((\E write_ok, flush_ok \in BOOLEAN : WriterRecv(write_ok, flush_ok))
              /\ wpc' = "recv")
            => IF elapsed > FlushMs
                  THEN elapsed' = 0 /\ synced' = Len(file')
                  ELSE elapsed' = elapsed /\ synced' = synced]_vars

\* C9 witness: a receive on an empty channel has waited RecvTimeoutMs and the
\* last flush lies exactly FlushMs + RecvTimeoutMs back, with frames appended
\* since.
C9_Witness ==
    /\ wpc = "recv"
    /\ waited = RecvTimeoutMs
    /\ elapsed = FlushMs + RecvTimeoutMs
    /\ synced < Len(file)

\* C10: a send that finds the receiver gone returns to the caller: the thread
\* is idle again, the record is dropped, neither the channel nor the file nor
\* any thread identity changes, the thread's remaining calls are untouched;
\* and nothing is ever appended to the file once the receiver is gone.
C10_SendFailureSwallowed ==
    /\ [][\A t \in Threads :
            (pc[t] = "send" /\ ~rx_alive /\ pc'[t] # "send")
               => /\ pc'[t] = "idle"
                  /\ returned'[t] = returned[t] + 1
                  /\ lost'[t] = Append(lost[t], ser_msg[t])
                  /\ sent' = sent
                  /\ file' = file
                  /\ chan' = chan
                  /\ LOCAL_METADATA' = LOCAL_METADATA
                  /\ calls' = calls]_vars
    /\ [][~rx_alive => file' = file]_vars
    /\ [](\A t \in Threads : pc[t] \in {"idle", "send"})

\* C10 witness: a thread has had two records dropped by a failed send, both
\* under the identity it was first given, and both calls returned.
C10_Witness ==
    \E t \in Threads :
        /\ Len(lost[t]) = 2
        /\ lost[t][1].thread_id = lost[t][2].thread_id
        /\ lost[t][1].thread_id = LOCAL_METADATA[t]
        /\ returned[t] = 2
        /\ pc[t] = "idle"

(***************************************************************************)
(* Properties of the reconstruction                                        *)
(***************************************************************************)
RECURSIVE AllSpans(_)
RECURSIVE CountSpans(_)

Range(s) == {s[i] : i \in DOMAIN s}

MaxOf(S) == CHOOSE x \in S : \A y \in S : y <= x

MinOf(S) == CHOOSE x \in S : \A y \in S : x <= y

\* the records of thread th in the log, in file order
StreamOf(th) == SelectSeq(data, LAMBDA r : r.thread_id = th)

IsEnter(s, i) == s[i].payload.kind = "OnEnter"

IsExit(s, i) == s[i].payload.kind = "OnExit"

IsEvent(s, i) == s[i].payload.kind = "OnEvent"

\* the number of spans open after record i of s
Depth(s, i) ==
    Cardinality({k \in 1..i : IsEnter(s, k)}) - Cardinality({k \in 1..i : IsExit(s, k)})

\* the position of the Enter of the innermost span open just before record j,
\* 0 when no span is open
Opener(s, j) ==
    LET open == {i \in 1..(j - 1) :
                    IsEnter(s, i) /\ \A k \in i..(j - 1) : Depth(s, k) >= Depth(s, i)}
    IN  IF open = {} THEN 0 ELSE MaxOf(open)

\* the position of the Exit that closes the span entered at i, 0 when none does
MatchingExit(s, i) ==
    LET closes == {j \in (i + 1)..Len(s) : IsExit(s, j) /\ Opener(s, j) = i}
    IN  IF closes = {} THEN 0 ELSE MinOf(closes)

\* record j is an Exit while no span is open
StrayExit(s, j) == IsExit(s, j) /\ Opener(s, j) = 0

\* record j is an Exit whose id is not that of the innermost open span
Mismatch(s, j) ==
    IsExit(s, j) /\ Opener(s, j) # 0 /\ s[Opener(s, j)].payload.id # s[j].payload.id

\* the id has a NewSpan record somewhere in s
Mapped(s, id) ==
    \E k \in 1..Len(s) : s[k].payload.kind = "OnNewSpan" /\ s[k].payload.id = id

\* record j is an Exit that closes a span whose id has no NewSpan record in s
UnmappedExit(s, j) ==
    IsExit(s, j) /\ Opener(s, j) # 0 /\ s[Opener(s, j)].payload.id = s[j].payload.id
       /\ ~Mapped(s, s[j].payload.id)

\* every Enter has its Exit and no Exit comes while no span is open
Balanced(s) ==
    /\ \A j \in 1..Len(s) : ~StrayExit(s, j)
    /\ \A i \in 1..Len(s) : IsEnter(s, i) => MatchingExit(s, i) # 0

\* balanced, every Exit carrying the id of the span it closes, every entered
\* id having a NewSpan record
WellFormed(s) ==
    /\ Balanced(s)
    /\ \A j \in 1..Len(s) : ~Mismatch(s, j)
    /\ \A i \in 1..Len(s) : IsEnter(s, i) => Mapped(s, s[i].payload.id)

\* the spans of a forest, at every depth
AllSpans(spans) ==
    UNION {{spans[i]} \cup AllSpans(spans[i].spans) : i \in DOMAIN spans}

\* the number of spans of a forest, at every depth
CountSpans(spans) ==
    Sum([i \in DOMAIN spans |-> 1 + CountSpans(spans[i].spans)], Len(spans))

\* the number of Event records strictly between positions i and j of s
EventsBetween(s, i, j) == Cardinality({k \in (i + 1)..(j - 1) : IsEvent(s, k)})

\* C3 as stated: whenever a thread's stream holds an Exit whose id differs
\* from the innermost open span's, reconstruction ends in the failed assert_eq
\* of the two ids and gives no tree.
C3_MismatchAlwaysReported ==
    \A n \in DOMAIN results :
        LET s == StreamOf(results[n].thread_id)
            r == results[n].tl_span
        IN  (\E j \in 1..Len(s) : Mismatch(s, j))
               => (~r.ok /\ r.err.kind = "assert_eq")

\* C3 amended: such a stream never gives a tree, the run ends in a panic and
\* prints no span of the thread; the panic is the failed assert_eq, naming the
\* id of the Exit and the id of the open span, whenever that Exit is the first
\* record at which reconstruction fails, that is when no earlier Exit comes
\* while no span is open, mismatches, or closes a span whose id has no NewSpan
\* record.
C3_MismatchNeverYieldsTree ==
    \A n \in DOMAIN results :
        LET s == StreamOf(results[n].thread_id)
            r == results[n].tl_span
        IN  \A j \in 1..Len(s) :
               Mismatch(s, j) =>
                  /\ ~r.ok
                  /\ rpc = "panicked"
                  /\ printed[Len(printed)] = ThreadLine(results[n].thread_id)
                  /\ (\A k \in 1..(j - 1) :
                         ~StrayExit(s, k) /\ ~Mismatch(s, k) /\ ~UnmappedExit(s, k))
                        => r.err = Panic("assert_eq", s[j].payload.id,
                                         s[Opener(s, j)].payload.id)

\* C3 witness: Enter(1); Enter(2); Exit(1) has been reconstructed and ended in
\* the failed assert_eq of 1 against 2.
C3_Witness ==
    /\ rpc = "panicked"
    /\ \E n \in DOMAIN results :
          LET s == StreamOf(results[n].thread_id)
          IN  /\ Len(s) = 3
              /\ s[1].payload = OnEnter(1)
              /\ s[2].payload = OnEnter(2)
              /\ s[3].payload = OnExit(1)
              /\ results[n].tl_span.err = Panic("assert_eq", 1, 2)

\* C4: reconstruction gives a tree only for a balanced stream: a stream that
\* ends while a span is open, or holds an Exit while none is open, ends the
\* run in a panic with no span of the thread printed.
C4_TreeOnlyIfBalanced ==
    \A n \in DOMAIN results :
        LET s == StreamOf(results[n].thread_id)
            r == results[n].tl_span
        IN  /\ r.ok => Balanced(s)
            /\ ~Balanced(s) =>
                  /\ ~r.ok
                  /\ r.spans = <<>>
                  /\ rpc = "panicked"
                  /\ printed[Len(printed)] = ThreadLine(results[n].thread_id)

\* C4 witness: a stream that ends inside a span it entered, with nothing else
\* wrong, has been reconstructed: the pop of the exhausted stack panicked.
C4_Witness ==
    /\ rpc = "panicked"
    /\ \E n \in DOMAIN results :
          LET s == StreamOf(results[n].thread_id)
          IN  /\ Len(s) > 1
              /\ IsEnter(s, Len(s) - 1)
              /\ IsEvent(s, Len(s))
              /\ \A j \in 1..Len(s) : ~IsExit(s, j)
              /\ results[n].tl_span.err.kind = "unwrap_none"

\* C5: when the analyzer has ended, every thread of the log whose stream is
\* well formed has been reconstructed and its report printed, whatever happened
\* to the other threads and in whatever order the threads were taken.
C5_ErrorScopedToThread ==
    rpc \in {"done", "panicked"} =>
        \A th \in {data[i].thread_id : i \in DOMAIN data} :
           WellFormed(StreamOf(th)) =>
              /\ \E n \in DOMAIN results :
                    results[n].thread_id = th /\ results[n].tl_span.ok
              /\ ThreadLine(th) \in Range(printed)

\* the spans a well-formed stream describes: for every Enter, its tick, the
\* tick of its Exit and the number of Events between the two
PairsOf(s) ==
    {<<s[i].tick, s[MatchingExit(s, i)].tick, EventsBetween(s, i, MatchingExit(s, i))>> :
        i \in {k \in 1..Len(s) : IsEnter(s, k)}}

\* C6: for a well-formed stream the forest holds exactly one span per
\* Enter/Exit pair, and count_events_rec gives for each span, own plus
\* descendants, the number of Events between its Enter and its Exit.
C6_SpansAndEventCounts ==
    \A n \in DOMAIN results :
        LET s == StreamOf(results[n].thread_id)
            r == results[n].tl_span
        IN  WellFormed(s) =>
               /\ r.ok
               /\ CountSpans(r.spans) = Cardinality({k \in 1..Len(s) : IsEnter(s, k)})
               /\ {<<sp.start, sp.end, count_events_rec(sp)[1] + count_events_rec(sp)[2]>> :
                      sp \in AllSpans(r.spans)} = PairsOf(s)

\* C6 witness: a reconstructed forest with a span entered again under the same
\* id, nested spans, and an event counted for a span through its child.
C6_Witness ==
    \E n \in DOMAIN results :
        LET s == StreamOf(results[n].thread_id)
            r == results[n].tl_span
        IN  /\ WellFormed(s)
            /\ r.ok
            /\ \E sp \in AllSpans(r.spans) :
                  /\ count_events_rec(sp) = <<0, 1>>
                  /\ sp.spans # <<>>
                  /\ sp.spans[1].attrs = sp.attrs

\* the span of forest that started at tick
SpanAt(spans, tick) == CHOOSE sp \in AllSpans(spans) : sp.start = tick

\* C7: in the tree of a well-formed stream every span starts at the tick of
\* its Enter and ends at the tick of its matching Exit, every Event sits in the
\* event list of the innermost span open at that point, or in the root events
\* when none is, and nowhere else, and every span sits in the span list of the
\* span open when it was entered, or in the roots; and the stream NewSpan(1),
\* Enter(1)@100, Event@150, Exit(1)@200 gives one root span 100..200 with one
\* own event, no descendant events, and no root events.
C7_TreeShape ==
    \A n \in DOMAIN results :
        LET s == StreamOf(results[n].thread_id)
            r == results[n].tl_span
            all == AllSpans(r.spans)
        IN  /\ WellFormed(s) =>
                 /\ r.ok
                 /\ {<<sp.start, sp.end>> : sp \in all}
                       = {<<s[i].tick, s[MatchingExit(s, i)].tick>> :
                             i \in {k \in 1..Len(s) : IsEnter(s, k)}}
                 /\ \A k \in 1..Len(s) :
                       IsEvent(s, k) =>
                          LET e == s[k].payload.arg
                              o == Opener(s, k)
                          IN  /\ (e \in Range(r.events)) <=> (o = 0)
                              /\ \A sp \in all :
                                    (e \in Range(sp.events))
                                       <=> (o # 0 /\ sp.start = s[o].tick)
                 /\ \A i \in 1..Len(s) :
                       IsEnter(s, i) =>
                          LET sp == SpanAt(r.spans, s[i].tick)
                              o == Opener(s, i)
                          IN  /\ (sp \in Range(r.spans)) <=> (o = 0)
                              /\ \A par \in all :
                                    (sp \in Range(par.spans))
                                       <=> (o # 0 /\ par.start = s[o].tick)
            /\ s = EndToEndExample =>
                 /\ r.ok
                 /\ Len(r.spans) = 1
                 /\ r.spans[1].start = 100
                 /\ r.spans[1].end = 200
                 /\ count_events_rec(r.spans[1]) = <<1, 0>>
                 /\ r.spans[1].spans = <<>>
                 /\ r.events = <<>>

\* C7 witness: the end-to-end stream has been reconstructed and its report
\* printed: one span of 100 ns with one event.
C7_Witness ==
    /\ data = EndToEndExample
    /\ rpc = "done"
    /\ Len(results) = 1
    /\ results[1].tl_span.ok
    /\ results[1].tl_span.spans[1].end = 200
    /\ printed = <<ThreadLine(1),
                   [what |-> "SPAN", thread |-> 0, indent |-> 0, ns |-> 100,
                    attrs |-> AttrsOf(1), events |-> 1, child_events |-> 0]>>

(***************************************************************************)
(* Properties of the capture pipeline, continued                           *)
(***************************************************************************)
\* a step of the writer in which File::create, write_all or sync_all fails
CreateFails == WriterCreate(FALSE)

WriteFails == RecvOutcome = "ok" /\ \E flush_ok \in BOOLEAN : WriterRecv(FALSE, flush_ok)

FlushFails ==
    \/ FlushDue /\ RecvOutcome \in {"ok", "timeout"} /\ WriterRecv(TRUE, FALSE)
    \/ RecvOutcome = "disconnected" /\ WriterRecv(TRUE, FALSE)

\* C11: a failed create, write or flush ends the writer thread in that very
\* step, with nothing appended or flushed by the failed operation; from then
\* on the writer takes no frame out of the queue, appends nothing and flushes
\* nothing.
C11_IoFailureIsFatal ==
    /\ [][(CreateFails \/ WriteFails \/ FlushFails)
             => (wpc' = "panicked" /\ ~rx_alive' /\ synced' = synced)]_vars
    /\ [][(CreateFails \/ WriteFails) => file' = file]_vars
    /\ [][wpc = "panicked"
             => (wpc' = "panicked" /\ file' = file /\ synced' = synced
                 /\ chan' = chan /\ ~rx_alive')]_vars

\* C11 witness: the writer has died after appending frames, some of them not
\* flushed, while a producer is about to send.
C11_Witness ==
    /\ wpc = "panicked"
    /\ file # <<>>
    /\ \E t \in Threads : pc[t] = "send"

\* the records thread t has produced so far, by any outcome of their send
RecordsOf(t) ==
    Range(sent[t]) \cup Range(lost[t])
       \cup (IF pc[t] = "send" THEN {ser_msg[t]} ELSE {})

\* the threads that have made a capture call
Identified == {t \in Threads : LOCAL_METADATA[t] # 0}

\* C12: every record of a thread carries that thread's identity, which never
\* changes once assigned; two threads never have the same identity; the
\* identities handed out are FirstThreadId, FirstThreadId + 1, ... in the
\* order of the threads' first calls, the counter being one above the last.
C12_ThreadIdentity ==
    /\ [](\A t \in Threads : \A r \in RecordsOf(t) :
             r.thread_id = LOCAL_METADATA[t] /\ LOCAL_METADATA[t] # 0)
    /\ [](\A t, u \in Identified : t # u => LOCAL_METADATA[t] # LOCAL_METADATA[u])
    /\ []({LOCAL_METADATA[t] : t \in Identified}
             = FirstThreadId..(FirstThreadId + Cardinality(Identified) - 1))
    /\ [](THREAD_ID = FirstThreadId + Cardinality(Identified))
    /\ [][\A t \in Threads :
            /\ LOCAL_METADATA[t] # 0 => LOCAL_METADATA'[t] = LOCAL_METADATA[t]
            /\ (LOCAL_METADATA[t] = 0 /\ LOCAL_METADATA'[t] # 0)
                  => (LOCAL_METADATA'[t] = THREAD_ID /\ THREAD_ID' = THREAD_ID + 1)]_vars

\* C12 witness: thread 2 made the first capture call of the process and holds
\* FirstThreadId; thread 1 called later, holds the next identity and has had
\* two records enqueued.
C12_Witness ==
    /\ LOCAL_METADATA[2] = FirstThreadId
    /\ LOCAL_METADATA[1] = FirstThreadId + 1
    /\ Len(sent[1]) >= 2
    /\ Len(sent[2]) >= 1

(***************************************************************************)
(* Properties of the frame codec and of the log reader                     *)
(***************************************************************************)
\* main has read the file
HasRead == rpc = "split" /\ cpc \in {"written", "damaged"}

\* the candidate frames of the file and those of them that decode
Pieces == SplitOnZero(contents, <<>>)

GoodPieces == {i \in DOMAIN Pieces : from_bytes_cobs(Pieces[i]).ok}

\* the k-th candidate that decodes
NthGood(k) ==
    CHOOSE i \in GoodPieces : Cardinality({j \in GoodPieces : j < i}) = k - 1

\* the number of frames whose bytes up to the terminating zero lie in the
\* first n bytes of the file
CompleteFrames(n) ==
    Cardinality({k \in DOMAIN recs : FrameEnd(recs, k) - 1 <= n})

\* C13: main reads back one record for every candidate frame that decodes, in
\* file order, whatever the other candidates hold; an intact file gives its
\* records, the empty candidate after the last delimiter being discarded; a
\* file cut short gives the records of the frames that are whole up to their
\* terminating zero, the partly written one being discarded.
C13_ReaderSkipsBadFrames ==
    HasRead =>
       /\ Len(data) = Cardinality(GoodPieces)
       /\ \A k \in DOMAIN data : data[k] = from_bytes_cobs(Pieces[NthGood(k)]).rec
       /\ damage.kind = "none" => data = recs
       /\ damage.kind = "cut" => data = SubSeq(recs, 1, CompleteFrames(damage.at))

\* C13 witness: a file of several frames was cut inside its last frame and
\* main has read the records of the frames before it.
C13_Witness ==
    /\ HasRead
    /\ damage.kind = "cut"
    /\ Len(recs) >= 2
    /\ damage.at > FrameEnd(recs, Len(recs) - 1) + 1
    /\ data = SubSeq(recs, 1, Len(recs) - 1)

\* the records of the frames before and after the damaged one are read back,
\* in order, around whatever the damaged bytes decode to
OthersRecovered ==
    LET before == SubSeq(recs, 1, damage.frame - 1)
        after == SubSeq(recs, damage.frame + 1, Len(recs))
    IN  /\ Len(data) >= Len(before) + Len(after)
        /\ SubSeq(data, 1, Len(before)) = before
        /\ SubSeq(data, Len(data) - Len(after) + 1, Len(data)) = after

\* C14 as stated: whatever range of bytes of one frame is overwritten, its
\* terminating zero included, the records of all other frames are read back.
C14_AnyRangeRecovered ==
    (HasRead /\ damage.kind = "range") => OthersRecovered

\* C14 amended: when the overwritten range leaves a zero where the frame's
\* terminating zero was, the records of all other frames are read back,
\* unchanged and in order, whatever bytes, zeros included, the range holds.
C14_RangeInsideRecovered ==
    (HasRead /\ damage.kind = "range" /\ damage.kept) => OthersRecovered

\* C14 witness: a zero was written over a byte of a frame between two others,
\* and main has read the records of exactly these two.
C14_Witness ==
    /\ HasRead
    /\ damage.kind = "range"
    /\ damage.kept
    /\ damage.frame > 1
    /\ damage.frame < Len(recs)
    /\ contents[damage.at] = 0
    /\ damage.at < FrameEnd(recs, damage.frame)
    /\ data = SubSeq(recs, 1, damage.frame - 1)
                 \o SubSeq(recs, damage.frame + 1, Len(recs))

NonDecreasing(s) == \A i, j \in DOMAIN s : i <= j => s[i].tick <= s[j].tick

\* C15: the records of a thread are stamped with ticks that never decrease in
\* the order they are enqueued, and so in the file; every span the analyzer
\* reconstructs from the file of a capture run ends no earlier than it
\* starts, and every duration it prints is end - start >= 0.
C15_EndNotBeforeStart ==
    /\ \A t \in Threads : NonDecreasing(sent[t])
    /\ \A id \in Range(LOCAL_METADATA) : NonDecreasing(Restrict(file \o chan, id))
    /\ \A n \in DOMAIN results :
          \A span \in AllSpans(results[n].tl_span.spans) : span.end >= span.start
    /\ \A i \in DOMAIN printed :
          printed[i].what = "SPAN" => printed[i].ns >= 0

\* C15 witness: the analyzer has rendered the log of a run of two threads, in
\* which thread 1 entered and exited its span at two different ticks.
C15_Witness ==
    /\ rpc = "done"
    /\ Len(results) = 2
    /\ \E n \in DOMAIN results :
          /\ results[n].tl_span.spans # <<>>
          /\ results[n].tl_span.spans[1].end > results[n].tl_span.spans[1].start

(***************************************************************************)
(* Properties of the reconstruction, continued                             *)
(***************************************************************************)
\* the positions of the NewSpan records of id in s
NewSpansOf(s, id) ==
    {k \in DOMAIN s : s[k].payload.kind = "OnNewSpan" /\ s[k].payload.id = id}

\* the position of the Enter record at which the span starting at tick began
EnterAt(s, tick) == CHOOSE i \in DOMAIN s : IsEnter(s, i) /\ s[i].tick = tick

\* C17: every span of a reconstructed tree carries the attributes of the last
\* NewSpan record of its id in the thread's stream, wherever that record
\* stands, after the span's Exit included.
C17_LastNewSpanWins ==
    \A n \in DOMAIN results :
        LET s == StreamOf(results[n].thread_id)
        IN  \A span \in AllSpans(results[n].tl_span.spans) :
               LET id == s[EnterAt(s, span.start)].payload.id
               IN  /\ NewSpansOf(s, id) # {}
                   /\ span.attrs = s[MaxOf(NewSpansOf(s, id))].payload.arg

\* C17 witness: a span was entered and exited under the attributes of one
\* callsite, a NewSpan record for the same id with other attributes followed,
\* and the reconstructed span carries the later attributes.
C17_Witness ==
    /\ rpc = "done"
    /\ \E n \in DOMAIN results :
          LET s == StreamOf(results[n].thread_id)
          IN  /\ Len(s) = 4
              /\ s[1].payload = OnNewSpan(1, AttrsOf(1))
              /\ IsEnter(s, 2)
              /\ IsExit(s, 3)
              /\ s[4].payload = OnNewSpan(1, AttrsOf(1) + 1)
              /\ Len(results[n].tl_span.spans) = 1
              /\ results[n].tl_span.spans[1].attrs = AttrsOf(1) + 1

\* s without its RecordFields, FollowsFrom, IdChange and Close records
WithoutPassed(s) == SelectSeq(s, LAMBDA r : r.payload.kind \notin PassedKinds)

\* C18: the outcome of reconstructing a thread's stream, its tree and root
\* events or its failure, is the outcome of reconstructing the stream with
\* every RecordFields, FollowsFrom, IdChange and Close record taken out.
C18_PassedRecordsHaveNoEffect ==
    \A n \in DOMAIN results :
        results[n].tl_span = spanner(WithoutPassed(StreamOf(results[n].thread_id)))

\* C18 witness: a stream with a record of each of the four kinds, one before
\* the Enter, one inside the open span and one after its Exit among them, was
\* reconstructed into its one span.
C18_Witness ==
    /\ rpc = "done"
    /\ \E n \in DOMAIN results :
          LET s == StreamOf(results[n].thread_id)
          IN  /\ Len(s) = 5
              /\ IsEnter(s, 2)
              /\ s[3].payload.kind = "OnClose"
              /\ IsExit(s, 4)
              /\ s[5].payload.kind = "OnRecord"
              /\ Len(results[n].tl_span.spans) = 1

\* id is entered and later exited in s and has no NewSpan record in s
EnteredExitedUnmapped(s, id) ==
    /\ ~Mapped(s, id)
    /\ \E i, j \in 1..Len(s) :
          i < j /\ IsEnter(s, i) /\ IsExit(s, j)
                /\ s[i].payload.id = id /\ s[j].payload.id = id

\* every Exit of s closes an open span of its own id
Nested(s) == \A j \in 1..Len(s) : ~StrayExit(s, j) /\ ~Mismatch(s, j)

\* the first Exit of s that closes a span whose id has no NewSpan record in s
FirstUnmappedExit(s) == MinOf({j \in 1..Len(s) : UnmappedExit(s, j)})

\* C19: a thread's sub-stream in which an id is entered and exited without a
\* NewSpan record of that id in the same sub-stream gives no tree; when the
\* Enter and Exit records are balanced and nested the run ends at the Exit of
\* such a span, the first one to close, in the failed lookup of its attributes.
C19_UnmappedSpanFails ==
    \A n \in DOMAIN results :
        LET s == StreamOf(results[n].thread_id)
            r == results[n].tl_span
        IN  (\E id \in SpanIds : EnteredExitedUnmapped(s, id)) =>
               /\ ~r.ok
               /\ (Balanced(s) /\ Nested(s)) =>
                     r.err = Panic("unwrap_attrs", s[FirstUnmappedExit(s)].payload.id, 0)

\* C19 witness: a log in which thread 1 creates span 1 and thread 2 enters
\* and exits it; thread 2's sub-stream, balanced and nested, ended in the
\* failed lookup.
C19_Witness ==
    /\ rpc = "panicked"
    /\ \E k \in DOMAIN data :
          data[k].thread_id = 1 /\ data[k].payload.kind = "OnNewSpan"
             /\ data[k].payload.id = 1
    /\ \E n \in DOMAIN results :
          LET s == StreamOf(results[n].thread_id)
          IN  /\ results[n].thread_id = 2
              /\ Len(s) = 2
              /\ s[1].payload = OnEnter(1)
              /\ s[2].payload = OnExit(1)
              /\ results[n].tl_span.err = Panic("unwrap_attrs", 1, 0)

\* the writer thread has ended, by a panic or by returning
WriterEnded == wpc \in {"panicked", "done"}

\* C20: once the writer has ended the receiver is gone and the channel holds
\* nothing; a thread that is inside send then, blocked on the full channel
\* before or arriving later, leaves send with its call returned and its record
\* dropped, and with the threads scheduled it does so eventually unless the
\* process ends first: no capture call stays in send forever.
C20_NoProducerBlockedForever ==
    /\ [](WriterEnded => (~rx_alive /\ chan = <<>>))
    /\ [][WriterEnded => (WriterEnded' /\ file' = file)]_vars
    /\ [][\A t \in Threads :
            (WriterEnded /\ pc[t] = "send" /\ pc'[t] # "send")
               => /\ pc'[t] = "idle"
                  /\ returned'[t] = returned[t] + 1
                  /\ lost'[t] = Append(lost[t], ser_msg[t])
                  /\ sent' = sent]_vars
    /\ \A t \in Threads :
          (WriterEnded /\ pc[t] = "send") ~> (pc[t] = "idle" \/ exited)

\* C20 witness: the writer has panicked before writing anything while the
\* channel held Capacity frames, which are all the frames ever sent, and a
\* thread is inside send with a record that found no room.
C20_Witness ==
    /\ wpc = "panicked"
    /\ ~exited
    /\ file = <<>>
    /\ Len(sent[1]) + Len(sent[2]) = Capacity
    /\ \E t \in Threads : pc[t] = "send" /\ lost[t] = <<>>

====
